---- MODULE Spec2Model ----
(***************************************************************************)
(* Model of the poke.wizard transient model (models/poke_wizard.py): the   *)
(* wizard records, the onchange handler of search_type, the image          *)
(* downloader _fetch_image and the button handler action_search_api, cut   *)
(* at its HTTP requests (requests.get blocks until the server answers or   *)
(* the timeout elapses).                                                   *)
(*                                                                         *)
(* Text is a sequence of one-character strings, so that strip, lower,      *)
(* capitalize, title, replace and join are computed and not assumed.       *)
(* Python's False/None in a Char, Text or Binary field is the empty        *)
(* sequence; a JSON key that may be missing is a sequence of length 0 or 1.*)
(***************************************************************************)
EXTENDS Integers, Sequences, FiniteSets, TLC

VARIABLES
    wizards,    \* the poke.wizard table: wizards[id] is the record with that id
    cur,        \* id of the wizard shown in the dialog
    pc,         \* position of action_search_api: Idle, Fetching, FetchFront, FetchBack
    query,      \* local variable query of action_search_api
    data,       \* local variable data: the decoded catalog payload
    vals,       \* local variable vals: the values of the wizard to create
    reqs,       \* the requests.get calls of the running (or last) invocation
    response,   \* the catalog response of the running (or last) invocation
    outcome     \* how the last invocation ended: the action returned or the error raised

vars == <<wizards, cur, pc, query, data, vals, reqs, response, outcome>>

----------------------------------------------------------------------------
(* Bounds *)

\* action_search_api is not started once the table holds this many wizards.
MaxWizards == 3

----------------------------------------------------------------------------
(* Text *)

lowers == <<"a","b","c","d","e","f","g","h","i","j","k","l","m",
            "n","o","p","q","r","s","t","u","v","w","x","y","z">>
uppers == <<"A","B","C","D","E","F","G","H","I","J","K","L","M",
            "N","O","P","Q","R","S","T","U","V","W","X","Y","Z">>

IsLower(c) == \E i \in DOMAIN lowers : lowers[i] = c
IsUpper(c) == \E i \in DOMAIN uppers : uppers[i] = c
IsAlpha(c) == IsLower(c) \/ IsUpper(c)
IsSpace(c) == c \in {" ", "\t", "\n"}

LowerChar(c) == IF IsUpper(c) THEN lowers[CHOOSE i \in DOMAIN uppers : uppers[i] = c] ELSE c
UpperChar(c) == IF IsLower(c) THEN uppers[CHOOSE i \in DOMAIN lowers : lowers[i] = c] ELSE c

\* str.lower()
Lower(s) == [i \in DOMAIN s |-> LowerChar(s[i])]

\* str.strip(): leading and trailing whitespace removed
RECURSIVE LStrip(_)
LStrip(s) == IF s # <<>> /\ IsSpace(Head(s)) THEN LStrip(Tail(s)) ELSE s
RECURSIVE RStrip(_)
RStrip(s) == IF s # <<>> /\ IsSpace(s[Len(s)]) THEN RStrip(SubSeq(s, 1, Len(s) - 1)) ELSE s
Strip(s) == RStrip(LStrip(s))

\* str.capitalize(): first character upper-cased, the rest lower-cased
Capitalize(s) == [i \in DOMAIN s |-> IF i = 1 THEN UpperChar(s[i]) ELSE LowerChar(s[i])]

\* str.title(): a letter that follows a non-letter is upper-cased, any other lower-cased
Title(s) ==
    [i \in DOMAIN s |->
        IF i = 1 \/ ~IsAlpha(s[i - 1]) THEN UpperChar(s[i]) ELSE LowerChar(s[i])]

\* str.replace('-', ' ')
ReplaceHyphen(s) == [i \in DOMAIN s |-> IF s[i] = "-" THEN " " ELSE s[i]]

\* ", ".join(parts)
RECURSIVE JoinComma(_)
JoinComma(parts) ==
    IF parts = <<>> THEN <<>>
    ELSE IF Len(parts) = 1 THEN parts[1]
    ELSE parts[1] \o <<",", " ">> \o JoinComma(Tail(parts))

\* base64.b64encode(content): content is a sequence of bytes, the result is text
digits == <<"0","1","2","3","4","5","6","7","8","9">>
b64alphabet == uppers \o lowers \o digits \o <<"+", "/">>

B64Char(sextet) == b64alphabet[sextet + 1]

B64Group(b) ==
    LET b1 == b[1]
        b2 == IF Len(b) >= 2 THEN b[2] ELSE 0
        b3 == IF Len(b) >= 3 THEN b[3] ELSE 0
        v  == b1 * 65536 + b2 * 256 + b3
        c1 == B64Char(v \div 262144)
        c2 == B64Char((v \div 4096) % 64)
        c3 == IF Len(b) >= 2 THEN B64Char((v \div 64) % 64) ELSE "="
        c4 == IF Len(b) >= 3 THEN B64Char(v % 64) ELSE "="
    IN  <<c1, c2, c3, c4>>

RECURSIVE b64encode(_)
b64encode(content) ==
    IF content = <<>> THEN <<>>
    ELSE IF Len(content) <= 3 THEN B64Group(content)
    ELSE B64Group(SubSeq(content, 1, 3)) \o b64encode(SubSeq(content, 4, Len(content)))

----------------------------------------------------------------------------
(* The poke.wizard record *)

pokemon == <<"p","o","k","e","m","o","n">>
item    == <<"i","t","e","m">>

\* selection values of search_type
SearchTypes == {pokemon, item}

\* default of search_type
_get_default_type == pokemon

\* Python's False in a Char, Text or Binary field
False_ == <<>>

\* Mutant: the weight is divided by 10 as integers (data['weight'] // 10).
DivTen_floor(n) == <<n \div 10, 1>>

\* A float as numerator and denominator; the model only divides by ten, so the
\* denominator is 1 or 10 and every value has one representation.
Float(n) == <<n, 1>>
DivTen(n) == IF n % 10 = 0 THEN <<n \div 10, 1>> ELSE <<n, 10>>

\* The fields of the model and the value a new record gets for each of them.
FieldDefaults ==
    [ search_type  |-> _get_default_type,
      search_name  |-> False_,
      found        |-> FALSE,
      result_name  |-> False_,
      result_id    |-> 0,
      height_cm    |-> Float(0),
      weight_kg    |-> Float(0),
      poke_types   |-> False_,
      item_cost    |-> 0,
      item_effect  |-> False_,
      sprite_front |-> False_,
      sprite_back  |-> False_ ]

FieldNames == DOMAIN FieldDefaults

\* self.create(v): the fields v leaves out take their default
create(v) ==
    [f \in FieldNames |-> IF f \in DOMAIN v THEN v[f] ELSE FieldDefaults[f]]

\* The wizard shown in the dialog.
self == wizards[cur]

\* wizards with the fields fs of the shown wizard assigned
WriteSelf(fs) ==
    [wizards EXCEPT ![cur] = [f \in FieldNames |-> IF f \in DOMAIN fs THEN fs[f] ELSE @[f]]]

----------------------------------------------------------------------------
(* What the user may type and what the servers may answer *)

\* values of search_name: blank, and a name that strip() and lower() both change
SearchNames == { <<" ">>, <<" ", "A", "b", " ">> }

\* A JSON key that may be missing: <<>> when it is, <<v>> when it holds v.
Has(opt) == opt # <<>>
Get(opt) == opt[1]

\* data.get(key, default)
GetOr(opt, default) == IF Has(opt) THEN Get(opt) ELSE default

\* A payload with none of the keys the wizard reads (the catalog's listing, say).
NoKeys ==
    [ name |-> <<>>, id |-> <<>>, types |-> <<>>, height |-> <<>>, weight |-> <<>>,
      front_default |-> "", back_default |-> "",
      effect_entries |-> <<>>, cost |-> <<>>, default_ |-> "" ]

PayloadNames == { <<"m", "r", "-", "m", "i", "m", "e">> }
PayloadIds == { 122 }
TypeLists == { << <<"p","s","y","c","h","i","c">>, <<"f","a","i","r","y">> >> }
Heights == { 4, 13 }
Weights == { 60, 545 }
Costs == { 200 }
FrontUrl == "front.png"
BackUrl == "back.png"

es1 == [language |-> "es", short_effect |-> <<"c","u","r","a">>]
es2 == [language |-> "es", short_effect |-> <<"p","s">>]
en1 == [language |-> "en", short_effect |-> <<"h","e","a","l">>]
EffectLists == { <<>>, <<en1>>, <<es1, en1, es2>> }

Opt(S) == {<<>>} \cup {<<x>> : x \in S}

PokemonPayloads ==
    {NoKeys} \cup
    { [NoKeys EXCEPT !.name = <<n>>, !.id = <<i>>, !.types = t, !.height = h,
                     !.weight = w, !.front_default = f, !.back_default = b] :
        n \in PayloadNames, i \in PayloadIds, t \in Opt(TypeLists), h \in Opt(Heights),
        w \in Opt(Weights), f \in {"", FrontUrl}, b \in {"", BackUrl} }

ItemPayloads ==
    {NoKeys} \cup
    { [NoKeys EXCEPT !.name = <<n>>, !.id = <<i>>, !.effect_entries = e, !.cost = c,
                     !.default_ = f] :
        n \in PayloadNames, i \in PayloadIds, e \in Opt(EffectLists), c \in Opt(Costs),
        f \in {"", FrontUrl} }

HTTP_OK == 200
HTTP_NOT_FOUND == 404
OtherStatuses == { 500 }

TransportFailures == { "ConnectionError", "Timeout" }

\* What requests.get(api_url, timeout=10) may give: an exception, or a response
\* with a status and a body; decodable says whether response.json() decodes it.
CatalogResponses(kind) ==
    { [kind |-> "exc", cause |-> c, status |-> 0, decodable |-> FALSE, body |-> NoKeys] :
        c \in TransportFailures }
    \cup
    { [kind |-> "http", cause |-> "", status |-> st, decodable |-> FALSE, body |-> NoKeys] :
        st \in {HTTP_OK, HTTP_NOT_FOUND} \cup OtherStatuses }
    \cup
    { [kind |-> "http", cause |-> "", status |-> HTTP_OK, decodable |-> TRUE, body |-> b] :
        b \in IF kind = pokemon THEN PokemonPayloads ELSE ItemPayloads }

ImageContents == { <<77>>, <<77, 97, 110>> }

\* What requests.get(url, timeout=5) may give.
ImageResponses ==
    { [kind |-> "exc", status |-> 0, content |-> <<>>] }
    \cup
    { [kind |-> "http", status |-> st, content |-> <<>>] : st \in {HTTP_NOT_FOUND} \cup OtherStatuses }
    \cup
    { [kind |-> "http", status |-> HTTP_OK, content |-> c] : c \in ImageContents }

----------------------------------------------------------------------------
(* _onchange_search_type and the edit of search_name *)

\* Mutant: the handler clears neither sprite.
_onchange_search_type_keeps_sprites ==
    /\ pc = "Idle"
    /\ \E t \in SearchTypes \ {self.search_type} :
        wizards' = WriteSelf([search_type |-> t])
    /\ UNCHANGED <<cur, pc, query, data, vals, reqs, response, outcome>>

\* Mutant: the handler clears the front sprite and forgets the back one.
_onchange_search_type_keeps_back ==
    /\ pc = "Idle"
    /\ \E t \in SearchTypes \ {self.search_type} :
        wizards' = WriteSelf([search_type |-> t, sprite_front |-> False_])
    /\ UNCHANGED <<cur, pc, query, data, vals, reqs, response, outcome>>

\* The user picks the other search type in the form; the onchange handler runs.
_onchange_search_type ==
    /\ pc = "Idle"
    /\ \E t \in SearchTypes \ {self.search_type} :
        wizards' = WriteSelf([search_type |-> t,
                              sprite_front |-> False_, sprite_back |-> False_])
    /\ UNCHANGED <<cur, pc, query, data, vals, reqs, response, outcome>>

\* The user types into search_name, the one field with no onchange handler.
SetSearchName ==
    /\ pc = "Idle"
    /\ \E n \in SearchNames : wizards' = WriteSelf([search_name |-> n])
    /\ UNCHANGED <<cur, pc, query, data, vals, reqs, response, outcome>>

----------------------------------------------------------------------------
(* _fetch_image *)

\* _fetch_image calls requests.get only for a url that is not empty
FetchRequests(url) == url # ""

\* What _fetch_image(url) returns when the server answers r (r is not read for
\* an empty url).
_fetch_image(url, r) ==
    IF url = "" THEN False_
    ELSE IF r.kind = "exc" THEN False_
    ELSE IF r.status = HTTP_OK THEN b64encode(r.content)
    ELSE False_

----------------------------------------------------------------------------
(* action_search_api *)

NoOutcome == [kind |-> "none", key |-> <<>>, category |-> <<>>, cause |-> "", res_id |-> 0]

\* raise UserError("No se encontro nada con el nombre '{query}' en la categoria ...")
NotFound(key, category) == [NoOutcome EXCEPT !.kind = "NotFound", !.key = key, !.category = category]
\* raise UserError("Hubo un error de conexion con la PokeAPI.")
Upstream == [NoOutcome EXCEPT !.kind = "Upstream"]
\* raise UserError(f"Error de red al conectar con PokeAPI: {e}")
Network(cause) == [NoOutcome EXCEPT !.kind = "Network", !.cause = cause]
\* an exception that action_search_api does not catch
Unhandled(cause) == [NoOutcome EXCEPT !.kind = "Unhandled", !.cause = cause]
\* the returned ir.actions.act_window
ActWindow(id) == [NoOutcome EXCEPT !.kind = "act_window", !.res_id = id]

NoResponse == [kind |-> "none", cause |-> "", status |-> 0, decodable |-> FALSE, body |-> NoKeys]

CatalogRequest(endpoint, key) == [kind |-> "catalog", path |-> endpoint, key |-> key, timeout |-> 10]
ImageRequest(url) == [kind |-> "image", path |-> <<>>, key |-> <<url>>, timeout |-> 5]

\* Lines 107-121: the sprites of self are cleared, the query is normalised and
\* the catalog is asked. search_name is a required field: the form does not call
\* the button with it unset.
action_search_api ==
    /\ pc = "Idle"
    /\ Len(wizards) < MaxWizards
    /\ self.search_name # False_
    /\ wizards' = WriteSelf([sprite_front |-> False_, sprite_back |-> False_])
    /\ query' = Lower(Strip(self.search_name))
    /\ reqs' = << CatalogRequest(IF self.search_type = pokemon THEN pokemon ELSE item, query') >>
    /\ pc' = "Fetching"
    /\ response' = NoResponse
    /\ outcome' = NoOutcome
    /\ UNCHANGED <<cur, data, vals>>

\* The invocation ends with an exception: nothing is created, the locals are gone.
\* The assignments of lines 108-109 stand as the source has them; whether the
\* host's transaction undoes them is not in the source.
Raise(o) ==
    /\ outcome' = o
    /\ pc' = "Idle"
    /\ query' = False_
    /\ data' = NoKeys
    /\ vals' = FieldDefaults
    /\ UNCHANGED <<wizards, cur, reqs>>

\* Mutant: the results are written over the wizard shown instead of a new one.
Commit_in_place(v) ==
    /\ wizards' = [wizards EXCEPT ![cur] = create(v)]
    /\ outcome' = ActWindow(cur)
    /\ pc' = "Idle"
    /\ query' = False_
    /\ data' = NoKeys
    /\ vals' = FieldDefaults
    /\ UNCHANGED <<cur, reqs>>

\* Lines 183-192: the new wizard is created and returned for display.
Commit(v) ==
    /\ wizards' = Append(wizards, create(v))
    /\ cur' = Len(wizards) + 1
    /\ outcome' = ActWindow(Len(wizards) + 1)
    /\ pc' = "Idle"
    /\ query' = False_
    /\ data' = NoKeys
    /\ vals' = FieldDefaults
    /\ UNCHANGED reqs

\* requests.get(url, timeout=5) is issued inside _fetch_image; the handler waits at p.
Await(p, v, d, url) ==
    /\ pc' = p
    /\ reqs' = Append(reqs, ImageRequest(url))
    /\ vals' = v
    /\ data' = d
    /\ UNCHANGED <<wizards, cur, outcome, query>>

\* Line 162: 'sprite_back': self._fetch_image(data['sprites']['back_default'])
FetchBack(v, d) ==
    IF FetchRequests(d.back_default)
    THEN Await("FetchBack", v, d, d.back_default)
    ELSE Commit([v EXCEPT !.sprite_back = _fetch_image(d.back_default, NoResponse)])

\* Mutant: the wizard is created right after the front sprite, for a pokemon too.
AfterFront_no_back(v, d) == Commit(v)

\* What follows the front sprite: the back sprite for a pokemon, the creation for an item.
AfterFront(v, d) ==
    IF self.search_type = pokemon THEN FetchBack(v, d) ELSE Commit(v)

\* The url of the front sprite: data['sprites']['front_default'] or ['default'].
FrontUrlOf(d) == IF self.search_type = pokemon THEN d.front_default ELSE d.default_

\* Lines 161 and 176: 'sprite_front': self._fetch_image(...)
FetchFront(v, d) ==
    IF FetchRequests(FrontUrlOf(d))
    THEN Await("FetchFront", v, d, FrontUrlOf(d))
    ELSE AfterFront([v EXCEPT !.sprite_front = _fetch_image(FrontUrlOf(d), NoResponse)], d)

\* Mutant: vals is built with 'found': False.
BaseVals_not_found(d) ==
    [ sprite_front |-> False_, sprite_back |-> False_,
      search_type  |-> self.search_type,
      search_name  |-> self.search_name,
      found        |-> FALSE,
      result_name  |-> Title(ReplaceHyphen(Get(d.name))),
      result_id    |-> Get(d.id),
      height_cm    |-> Float(0), weight_kg |-> Float(0), poke_types |-> False_,
      item_cost    |-> 0, item_effect |-> False_ ]

\* Lines 135-146: the values common to both kinds, every other field cleared.
BaseVals(d) ==
    [ sprite_front |-> False_, sprite_back |-> False_,
      search_type  |-> self.search_type,
      search_name  |-> self.search_name,
      found        |-> TRUE,
      result_name  |-> Title(ReplaceHyphen(Get(d.name))),
      result_id    |-> Get(d.id),
      height_cm    |-> Float(0), weight_kg |-> Float(0), poke_types |-> False_,
      item_cost    |-> 0, item_effect |-> False_ ]

\* Line 151: the comma-joined, capitalised names of data['types']
PokeTypes(d) == JoinComma([i \in DOMAIN Get(d.types) |-> Capitalize(Get(d.types)[i])])

\* Lines 152-160: the values of a pokemon
PokemonVals(d) ==
    [BaseVals(d) EXCEPT !.height_cm = Float(Get(d.height) * 10),
                        !.weight_kg = DivTen(Get(d.weight)),
                        !.poke_types = PokeTypes(d)]

SinDescripcion == <<"S","i","n"," ","d","e","s","c","r","i","p","c","i","o","n">>

\* Lines 169-171: the loop over effect_entries, every 'es' entry assigning effect_text
RECURSIVE EffectLoop(_, _)
EffectLoop(entries, effect_text) ==
    IF entries = <<>> THEN effect_text
    ELSE EffectLoop(Tail(entries),
                    IF Head(entries).language = "es" THEN Head(entries).short_effect
                    ELSE effect_text)

\* Lines 167-171
EffectText(d) ==
    IF Has(d.effect_entries) /\ Get(d.effect_entries) # <<>>
    THEN EffectLoop(Get(d.effect_entries), SinDescripcion)
    ELSE SinDescripcion

\* Lines 173-175: the values of an item
ItemVals(d) ==
    [BaseVals(d) EXCEPT !.item_cost = GetOr(d.cost, 0), !.item_effect = EffectText(d)]

\* Lines 135-177 up to the first image: data[...] of a missing key raises KeyError.
Transform(d) ==
    IF ~Has(d.name) \/ ~Has(d.id) THEN Raise(Unhandled("KeyError"))
    ELSE IF self.search_type = pokemon
    THEN IF ~Has(d.types) \/ ~Has(d.height) \/ ~Has(d.weight)
         THEN Raise(Unhandled("KeyError"))
         ELSE FetchFront(PokemonVals(d), d)
    ELSE FetchFront(ItemVals(d), d)

\* Mutant: a transport failure or an unexpected status is retried once.
Classify_retries(r) ==
    IF (r.kind = "exc" \/ r.status \notin {HTTP_OK, HTTP_NOT_FOUND}) /\ Len(reqs) < 2
    THEN /\ reqs' = Append(reqs, reqs[1])
         /\ UNCHANGED <<wizards, cur, pc, query, data, vals, outcome>>
    ELSE IF r.kind = "exc" THEN Raise(Network(r.cause))
    ELSE IF r.status = HTTP_NOT_FOUND THEN Raise(NotFound(query, Capitalize(self.search_type)))
    ELSE IF r.status # HTTP_OK THEN Raise(Upstream)
    ELSE IF ~r.decodable
    THEN \E o \in {Network("JSONDecodeError"), Unhandled("ValueError")} : Raise(o)
    ELSE Transform(r.body)

\* Lines 121-130 and 194-196: the catalog answers r. response.json() of a body
\* that is not JSON raises requests' JSONDecodeError, a RequestException from
\* requests 2.27 on (caught at line 194) and a plain ValueError before (not caught).
Classify(r) ==
    IF r.kind = "exc" THEN Raise(Network(r.cause))
    ELSE IF r.status = HTTP_NOT_FOUND THEN Raise(NotFound(query, Capitalize(self.search_type)))
    ELSE IF r.status # HTTP_OK THEN Raise(Upstream)
    ELSE IF ~r.decodable
    THEN \E o \in {Network("JSONDecodeError"), Unhandled("ValueError")} : Raise(o)
    ELSE Transform(r.body)

CatalogResponse ==
    /\ pc = "Fetching"
    /\ \E r \in CatalogResponses(self.search_type) :
        /\ response' = r
        /\ Classify(r)

FrontImageResponse ==
    /\ pc = "FetchFront"
    /\ \E r \in ImageResponses :
        AfterFront([vals EXCEPT !.sprite_front = _fetch_image(FrontUrlOf(data), r)], data)
    /\ UNCHANGED response

BackImageResponse ==
    /\ pc = "FetchBack"
    /\ \E r \in ImageResponses :
        Commit([vals EXCEPT !.sprite_back = _fetch_image(data.back_default, r)])
    /\ UNCHANGED response

----------------------------------------------------------------------------
(* The specification *)

Init ==
    /\ wizards = << create(<<>>) >>
    /\ cur = 1
    /\ pc = "Idle"
    /\ query = False_
    /\ data = NoKeys
    /\ vals = FieldDefaults
    /\ reqs = <<>>
    /\ response = NoResponse
    /\ outcome = NoOutcome

Next ==
    \/ _onchange_search_type
    \/ SetSearchName
    \/ action_search_api
    \/ CatalogResponse
    \/ FrontImageResponse
    \/ BackImageResponse

Spec == Init /\ [][Next]_vars

\* requests.get is called with a timeout (10 for the catalog, 5 for an image):
\* a pending request is answered or fails, so no response step is put off forever.
\* The user is free never to act again.
FairSpec ==
    /\ Spec
    /\ WF_vars(CatalogResponse)
    /\ WF_vars(FrontImageResponse)
    /\ WF_vars(BackImageResponse)

----------------------------------------------------------------------------
(* Vocabulary of the properties *)

ResultFields ==
    {"result_name", "result_id", "height_cm", "weight_kg", "poke_types",
     "item_cost", "item_effect", "sprite_front", "sprite_back"}

\* every result field of w is at its empty default
ResultEmpty(w) == \A f \in ResultFields : w[f] = FieldDefaults[f]

\* w is invalidated: not found, nothing of a result in it
Invalidated(w) == ~w.found /\ ResultEmpty(w)

CreatureEmpty(w) == \A f \in {"height_cm", "weight_kg", "poke_types"} : w[f] = FieldDefaults[f]
ItemEmpty(w) == \A f \in {"item_cost", "item_effect"} : w[f] = FieldDefaults[f]

\* the catalog request of the running (or last) invocation
LastCatalogRequest == reqs[1]

\* the last invocation ended, and the catalog had failed: 404, another status
\* that is not 200, or no answer at all
CatalogFailed ==
    /\ pc = "Idle"
    /\ \/ response.kind = "exc"
       \/ response.kind = "http" /\ response.status # HTTP_OK

\* the last invocation ended, and the catalog had answered 200
CatalogOk == pc = "Idle" /\ response.kind = "http" /\ response.status = HTTP_OK

----------------------------------------------------------------------------
(* C1 *)

\* C1: after action_search_api ran with a query that is not empty and the
\* catalog lookup failed (404, another non-200 status, transport failure), the
\* wizard shown has found = FALSE and every result field at its empty default.
\* Stated as the claim has it; the code clears the two sprites only.
C1_FailedLookupLeavesNothing ==
    (CatalogFailed /\ LastCatalogRequest.key # <<>>) => Invalidated(self)

----------------------------------------------------------------------------
(* C2 *)

\* C2: while the catalog request of a query that is not empty is in flight, the
\* wizard shown already has found = FALSE and every result field, both sprites
\* included, at its empty value. Stated as the claim has it.
C2_InvalidatedBeforeRequest ==
    (pc = "Fetching" /\ query # <<>>) => Invalidated(self)

----------------------------------------------------------------------------
(* C3 *)

HasCacheEpoch(w) == "cacheEpoch" \in DOMAIN w

\* C3: the wizard carries a counter cacheEpoch that every lookup attempt
\* raises by exactly one. Stated as the claim has it; the model has no such field.
C3_CacheEpochCountsAttempts ==
    [][(pc = "Idle" /\ pc' = "Fetching") =>
            /\ HasCacheEpoch(wizards[cur])
            /\ HasCacheEpoch(wizards'[cur])
            /\ wizards'[cur].cacheEpoch = wizards[cur].cacheEpoch + 1]_vars

----------------------------------------------------------------------------
(* C4 *)

\* C4: when search_name is empty after trimming, pressing the button sends no
\* request, raises nothing and leaves the wizard as it was. A step that keeps
\* search_type and search_name is not an edit of the user. Stated as the claim has it.
C4_BlankQueryDoesNothing ==
    [][(/\ pc = "Idle"
        /\ self.search_name # False_
        /\ Strip(self.search_name) = <<>>
        /\ wizards'[cur].search_type = self.search_type
        /\ wizards'[cur].search_name = self.search_name)
       => UNCHANGED <<wizards, reqs, outcome, pc>>]_vars

----------------------------------------------------------------------------
(* C5 *)

\* C5: in every wizard only the field group of its search_type is populated:
\* an 'item' wizard has height_cm, weight_kg and poke_types empty, a 'pokemon'
\* wizard has item_cost and item_effect empty. Stated as the claim has it.
C5_OnlyGroupOfSearchType ==
    \A i \in DOMAIN wizards :
        /\ wizards[i].search_type = item => CreatureEmpty(wizards[i])
        /\ wizards[i].search_type = pokemon => ItemEmpty(wizards[i])

----------------------------------------------------------------------------
(* C6 *)

\* C6: a wizard whose search_type is 'item' has no back sprite.
C6_ItemHasNoBackSprite ==
    \A i \in DOMAIN wizards :
        wizards[i].search_type = item => wizards[i].sprite_back = False_

\* A wizard populated by a pokemon lookup was switched to 'item', and the item
\* lookup started from it succeeded and stored a front sprite.
C6_Witness ==
    \E i, j \in DOMAIN wizards :
        /\ wizards[i].search_type = item /\ wizards[i].found
        /\ wizards[i].poke_types # False_
        /\ wizards[j].search_type = item /\ wizards[j].found
        /\ wizards[j].item_effect # False_ /\ wizards[j].sprite_front # False_

----------------------------------------------------------------------------
(* C7 *)

\* C7: a wizard with found = FALSE has every result field at its empty default.
C7_NotFoundIsEmpty ==
    \A i \in DOMAIN wizards : ~wizards[i].found => ResultEmpty(wizards[i])

\* A lookup started from a wizard that is not found failed: the wizard is still
\* the one shown, and it is still not found.
C7_Witness ==
    /\ CatalogFailed
    /\ ~self.found
    /\ self.search_name # False_

----------------------------------------------------------------------------
(* C8 *)

\* C8: a step that changes the search_type of a wizard leaves both its sprites
\* empty and sends no request.
C8_TypeChangeClearsSprites ==
    [][\A i \in DOMAIN wizards :
          wizards'[i].search_type # wizards[i].search_type =>
              /\ wizards'[i].sprite_front = False_
              /\ wizards'[i].sprite_back = False_
              /\ reqs' = reqs]_vars

\* The wizard shown was created by a pokemon lookup that asked for both sprites,
\* and has been switched to 'item' since: its sprites are empty.
C8_Witness ==
    /\ pc = "Idle"
    /\ outcome.kind = "act_window" /\ outcome.res_id = cur
    /\ Len(reqs) = 3
    /\ self.search_type = item /\ self.poke_types # False_
    /\ self.sprite_front = False_ /\ self.sprite_back = False_

----------------------------------------------------------------------------
(* C9 *)

\* C9: the catalog response decides how the invocation ends: 200 a success, 404
\* the not-found error naming the key and the kind, another status the
\* connectivity error, a transport failure the network error with its cause.
\* Stated as the claim has it.
C9_StatusDecidesOutcome ==
    pc = "Idle" /\ response.kind # "none" =>
        /\ CatalogOk => outcome.kind = "act_window"
        /\ (response.kind = "http" /\ response.status = HTTP_NOT_FOUND) =>
              outcome = NotFound(LastCatalogRequest.key, Capitalize(LastCatalogRequest.path))
        /\ (response.kind = "http" /\ response.status \notin {HTTP_OK, HTTP_NOT_FOUND}) =>
              outcome = Upstream
        /\ response.kind = "exc" =>
              outcome.kind = "Network" /\ outcome.cause \in TransportFailures

----------------------------------------------------------------------------
(* C10 *)

\* C10: once the catalog has answered 200 the lookup succeeds whatever the
\* image requests do: a found wizard with its name and id is created and shown,
\* and no error is raised. Stated as the claim has it.
C10_Status200AlwaysSucceeds ==
    CatalogOk =>
        /\ outcome.kind = "act_window"
        /\ outcome.res_id \in DOMAIN wizards
        /\ wizards[outcome.res_id].found
        /\ wizards[outcome.res_id].result_name # False_

----------------------------------------------------------------------------
(* C11 *)

\* the kind the running (or last) invocation asked the catalog for
LastKind == LastCatalogRequest.path

\* the payload of the catalog's answer
LastPayload == response.body

\* the last invocation ended with a new wizard, and this is it
Created == wizards[outcome.res_id]
Succeeded == pc = "Idle" /\ outcome.kind = "act_window"

\* C11: a 200 payload that has its name and id but lacks optional fields still
\* ends in a found wizard, an absent height, weight or cost giving 0, absent
\* types the empty text and absent effect_entries the sentinel. Stated as the
\* claim has it; the code defaults cost and effect_entries only.
C11_MissingOptionalFieldsDefault ==
    (CatalogOk /\ response.decodable /\ Has(LastPayload.name) /\ Has(LastPayload.id)) =>
        /\ Succeeded
        /\ Created.found
        /\ LastKind = pokemon =>
            /\ ~Has(LastPayload.height) => Created.height_cm = Float(0)
            /\ ~Has(LastPayload.weight) => Created.weight_kg = Float(0)
            /\ ~Has(LastPayload.types) => Created.poke_types = False_
        /\ LastKind = item =>
            /\ ~Has(LastPayload.cost) => Created.item_cost = 0
            /\ ~Has(LastPayload.effect_entries) => Created.item_effect = SinDescripcion

----------------------------------------------------------------------------
(* C12 *)

\* the entries of a list whose language is the locale
Localized(entries, locale) == SelectSeq(entries, LAMBDA e : e.language = locale)

\* the short_effect of the first entry in the locale, the sentinel when there is none
FirstEffect(entries, locale) ==
    IF Localized(entries, locale) = <<>> THEN SinDescripcion
    ELSE Head(Localized(entries, locale)).short_effect

\* C12: after a successful item lookup item_effect is the short_effect of the
\* first 'es' entry of effect_entries, and the sentinel exactly when the list is
\* absent, empty or without an 'es' entry. Stated as the claim has it; the loop
\* of the code has no break and keeps the last 'es' entry.
C12_FirstLocalizedEffect ==
    (Succeeded /\ LastKind = item) =>
        /\ Created.item_effect = FirstEffect(GetOr(LastPayload.effect_entries, <<>>), "es")
        /\ Created.item_effect = SinDescripcion <=>
              Localized(GetOr(LastPayload.effect_entries, <<>>), "es") = <<>>

----------------------------------------------------------------------------
(* C13 *)

\* the catalog has failed: no answer, or a status that is not 200
ResponseFailed ==
    \/ response.kind = "exc"
    \/ response.kind = "http" /\ response.status # HTTP_OK

\* C13: an invocation sends at most one catalog request; once it has failed the
\* invocation is over with the user error of that failure, and that one request
\* is all it sent: no second catalog request and no image request.
C13_NoRetry ==
    /\ Cardinality({i \in DOMAIN reqs : reqs[i].kind = "catalog"}) <= 1
    /\ ResponseFailed =>
        /\ pc = "Idle"
        /\ Len(reqs) = 1
        /\ outcome.kind \in {"NotFound", "Upstream", "Network"}

\* A lookup started from a wizard that an earlier lookup created failed on an
\* unexpected status.
C13_Witness ==
    /\ ResponseFailed
    /\ response.status \in OtherStatuses
    /\ outcome = Upstream
    /\ Len(wizards) > 1

----------------------------------------------------------------------------
(* C14 *)

\* ten times the float x, when that is an integer n: x = <<num, den>>
TenTimesIs(x, n) == 10 * x[1] = n * x[2]

\* C14: after a successful pokemon lookup with payload height h and weight w the
\* wizard created has height_cm = h * 10 and 10 * weight_kg = w, and its
\* item_cost and item_effect are empty.
C14_HeightAndWeightConverted ==
    (Succeeded /\ LastKind = pokemon) =>
        /\ Created.height_cm = Float(Get(LastPayload.height) * 10)
        /\ TenTimesIs(Created.weight_kg, Get(LastPayload.weight))
        /\ ItemEmpty(Created)

\* A pokemon lookup whose weight is no multiple of ten succeeded, started from a
\* wizard that held an item result.
C14_Witness ==
    /\ Succeeded /\ LastKind = pokemon
    /\ Get(LastPayload.weight) % 10 # 0
    /\ Get(LastPayload.height) > 0
    /\ \E i \in DOMAIN wizards : i < outcome.res_id /\ ~ItemEmpty(wizards[i])

----------------------------------------------------------------------------
(* C15 *)

\* the image request of a url, none for an empty url
RequestOf(url) == IF url = "" THEN <<>> ELSE <<ImageRequest(url)>>

\* the image requests a successful lookup of the kind sends for the payload d,
\* in order: front then back for a pokemon, the front alone for an item
ImagesOf(kind, d) ==
    IF kind = pokemon THEN RequestOf(d.front_default) \o RequestOf(d.back_default)
    ELSE RequestOf(d.default_)

\* C15: an image request is sent only after the catalog has answered 200; a
\* lookup that succeeded has sent, after its catalog request, the front and the
\* back sprite request for a pokemon and the front one alone for an item; and
\* while an image request is pending nothing has been returned for display.
C15_ImagesAfterCatalog ==
    /\ \A i \in DOMAIN reqs :
          reqs[i].kind = "image" =>
              i > 1 /\ response.kind = "http" /\ response.status = HTTP_OK
    /\ Succeeded => reqs = <<LastCatalogRequest>> \o ImagesOf(LastKind, LastPayload)
    /\ pc \in {"FetchFront", "FetchBack"} => outcome = NoOutcome

\* A pokemon lookup succeeded after both its sprite requests, and both sprites
\* are stored in the wizard it created.
C15_Witness ==
    /\ Succeeded /\ LastKind = pokemon
    /\ Len(reqs) = 3
    /\ Created.sprite_front # False_ /\ Created.sprite_back # False_

----------------------------------------------------------------------------
(* C16 *)

\* the three ways the claim lets a lookup end: success, the not-found error,
\* the connectivity or network error
ClaimedEndings == {"act_window", "NotFound", "Upstream", "Network"}

\* Every lookup that was started comes back to Idle (under FairSpec).
LookupTerminates == (pc # "Idle") ~> (pc = "Idle")

\* C16: every lookup that was started comes back to Idle, and it does so through
\* success, the not-found error or the connectivity/network error. Stated as the
\* claim has it; the code also leaves through exceptions it does not catch.
C16_TerminatesThroughClaimedEndings ==
    /\ LookupTerminates
    /\ [](pc = "Idle" /\ response.kind # "none" => outcome.kind \in ClaimedEndings)

----------------------------------------------------------------------------
(* C17 *)

\* C17: after a lookup that failed, at whatever point, the wizard shown is fully
\* invalidated; after one that succeeded it is the complete new result. Stated
\* as the claim has it; after a failure the code shows the previous result with
\* its sprites cleared.
C17_NoHalfWrittenRecord ==
    /\ (pc = "Idle" /\ response.kind # "none" /\ ~Succeeded) => Invalidated(self)
    /\ Succeeded =>
        /\ self.found
        /\ self.result_name = Title(ReplaceHyphen(Get(LastPayload.name)))
        /\ self.result_id = Get(LastPayload.id)

----------------------------------------------------------------------------
(* C18 *)

\* the fields action_search_api may write in the wizard it runs on
SpriteFields == {"sprite_front", "sprite_back"}

\* a step of action_search_api: it starts, waits or returns
HandlerStep == pc # "Idle" \/ pc' # "Idle"

\* C18: a step of action_search_api changes no field of an existing wizard but
\* its two sprites; when it creates a wizard, that one copies search_type and
\* search_name of the wizard the lookup ran on and is the one returned and shown.
C18_OnlySpritesOfSelfWritten ==
    [][HandlerStep =>
          /\ \A i \in DOMAIN wizards : \A f \in FieldNames \ SpriteFields :
                wizards'[i][f] = wizards[i][f]
          /\ Len(wizards') > Len(wizards) =>
                /\ Len(wizards') = Len(wizards) + 1
                /\ cur' = Len(wizards')
                /\ outcome' = ActWindow(cur')
                /\ wizards'[cur'].found
                /\ wizards'[cur'].search_type = wizards[cur].search_type
                /\ wizards'[cur'].search_name = wizards[cur].search_name
          /\ Len(wizards') = Len(wizards) => cur' = cur /\ outcome'.kind # "act_window"]_vars

\* Two lookups succeeded, the second started from the wizard the first created:
\* that wizard still holds its result, and the new one is shown.
C18_Witness ==
    /\ Succeeded
    /\ Len(wizards) = 3 /\ cur = 3 /\ outcome.res_id = 3
    /\ wizards[2].found /\ wizards[2].result_name # False_
    /\ wizards[3].found

====
